---- MODULE Spec2Model ----
(***************************************************************************)
(* Model of the LogicFlow engine Scheduler (src/unnamed/part_000) and of   *)
(* the Recorder (src/packages/engine/src/recorder/index.ts).               *)
(*                                                                         *)
(* The scheduler keeps, per execution instance, a queue of nodes waiting   *)
(* to be executed (nodeQueueMap) and a map of tasks being executed         *)
(* (taskRunningMap).  Node executions are asynchronous: run() starts a     *)
(* node and returns, the node later either calls the continuation next()   *)
(* or its execute() resolves with status INTERRUPTED.  Recorder.addTask is *)
(* asynchronous too: it reads the execution's task list when it is called  *)
(* and writes it back after its await.                                     *)
(***************************************************************************)
EXTENDS Integers, Sequences, FiniteSets, TLC

VARIABLES
  nodeQueueMap,    \* Scheduler.nodeQueueMap: executionId -> sequence of NodeParam
  taskRunningMap,  \* Scheduler.taskRunningMap: executionId -> (taskId -> TaskParam)
  storage,         \* util/storage: key -> item
  pending,         \* Recorder.addTask calls suspended at their await, oldest first
  events,          \* per executionId of the payload, the events emitted, in order
  tasks,           \* per executionId, every execute()/resume() invocation, in start order
  nextTaskId,      \* source of createTaskId(): per executionId, the next fresh number
  clock,           \* source of Date.now()
  enqueued,        \* history: per executionId, the nodeIds passed to addTask, in order
  seeded,          \* history: per executionId, number of addTask calls made by the caller
  runCalls,        \* history: per executionId, number of run calls made by the caller
  resumeCalls      \* history: number of resume calls made so far

vars == <<nodeQueueMap, taskRunningMap, storage, pending, events, tasks,
          nextTaskId, clock, enqueued, seeded, runCalls, resumeCalls>>

(***************************************************************************)
(* Bounds of the model and the environment (flow model, caller).           *)
(***************************************************************************)
MaxSeed == 2
MaxResume == 1
MaxPending == 2

Execs == {"e1", "e2"}
\* The executions the caller starts.
Started == {"e1"}
Nodes == {"A", "B", "C"}
StartNodes == {"A", "B"}
Details == {"d1"}

\* The flow model's edges: A fans out to B and C.
Outgoing(nodeId) ==
  CASE nodeId = "A" -> <<"B", "C">>
    [] nodeId = "B" -> <<>>
    [] OTHER -> <<>>

NodeType(nodeId) == "task"

EVENT_INSTANCE_COMPLETE == "instance:complete"
EVENT_INSTANCE_INTERRUPTED == "instance:interrupted"
COMPLETED == "completed"
INTERRUPTED == "interrupted"
LOGICFLOW_ENGINE_INSTANCES == <<"const", "LOGICFLOW_ENGINE_INSTANCES">>

NoTaskId == <<"undefined", 0>>
NoNodeId == "undefined"
NoDetail == "undefined"
NullNode == [executionId |-> "null", nodeId |-> "null"]

(***************************************************************************)
(* Maps (JavaScript Map, storage) are functions on the set of present keys.*)
(***************************************************************************)
EmptyMap == <<>>
Has(m, k) == k \in DOMAIN m
MapSet(m, k, v) == [x \in (DOMAIN m) \cup {k} |-> IF x = k THEN v ELSE m[x]]
MapDelete(m, k) == [x \in (DOMAIN m) \ {k} |-> m[x]]

ExecKey(executionId) == <<"execution", executionId>>
TaskKey(taskId) == <<"task", taskId>>

\* The mutable state the operations below transform.
State ==
  [nodeQueueMap |-> nodeQueueMap, taskRunningMap |-> taskRunningMap,
   storage |-> storage, pending |-> pending, events |-> events,
   tasks |-> tasks, nextTaskId |-> nextTaskId, clock |-> clock,
   enqueued |-> enqueued]

Becomes(S) ==
  /\ nodeQueueMap' = S.nodeQueueMap
  /\ taskRunningMap' = S.taskRunningMap
  /\ storage' = S.storage
  /\ pending' = S.pending
  /\ events' = S.events
  /\ tasks' = S.tasks
  /\ nextTaskId' = S.nextTaskId
  /\ clock' = S.clock
  /\ enqueued' = S.enqueued

(***************************************************************************)
(* Event channel and storage.                                              *)
(***************************************************************************)
emit(S, event) == [S EXCEPT !.events[event.executionId] = Append(@, event)]

\* Recorder.getExecutionTasks: the list stored for the execution, if any.
getExecutionTasks(S, executionId) ==
  IF Has(S.storage, ExecKey(executionId))
  THEN [defined |-> TRUE, value |-> S.storage[ExecKey(executionId)]]
  ELSE [defined |-> FALSE, value |-> <<>>]

\* Recorder.addTask up to its await: the list is read, the rest is suspended.
RecorderAddTask(S, task) ==
  [S EXCEPT !.pending =
     Append(@, [task |-> task,
                instanceData |-> getExecutionTasks(S, task.executionId)])]

\* Recorder.addTask after its await.
RecorderAddTaskResume(st, p) ==
  LET executionId == p.task.executionId
      taskId == p.task.taskId
      instance == IF Has(st, LOGICFLOW_ENGINE_INSTANCES)
                  THEN st[LOGICFLOW_ENGINE_INSTANCES] ELSE <<>>
      st1 == IF ~p.instanceData.defined
             THEN MapSet(st, LOGICFLOW_ENGINE_INSTANCES, Append(instance, executionId))
             ELSE st
      instanceData == IF p.instanceData.defined THEN p.instanceData.value ELSE <<>>
      st2 == MapSet(st1, ExecKey(executionId), Append(instanceData, taskId))
  IN MapSet(st2, TaskKey(taskId), p.task)

\* Recorder.clear, inner loop: the records of the tasks listed are removed.
RECURSIVE removeTasks(_, _)
removeTasks(st, instanceData) ==
  IF instanceData = <<>> THEN st
  ELSE removeTasks(MapDelete(st, TaskKey(Head(instanceData))), Tail(instanceData))

\* Recorder.clear, outer loop: for each execution of the index, its list is
\* removed, then read again, and the records of the list read are removed.
RECURSIVE clearInstances(_, _)
clearInstances(st, instance) ==
  IF instance = <<>> THEN st
  ELSE LET executionId == Head(instance)
           st1 == MapDelete(st, ExecKey(executionId))
           instanceData == IF Has(st1, ExecKey(executionId))
                           THEN st1[ExecKey(executionId)] ELSE <<>>
       IN clearInstances(removeTasks(st1, instanceData), Tail(instance))

clear(st) ==
  LET instance == IF Has(st, LOGICFLOW_ENGINE_INSTANCES)
                  THEN st[LOGICFLOW_ENGINE_INSTANCES] ELSE <<>>
  IN MapDelete(clearInstances(st, instance), LOGICFLOW_ENGINE_INSTANCES)

(***************************************************************************)
(* Scheduler.                                                              *)
(***************************************************************************)
addTask(S, nodeParam) ==
  LET executionId == nodeParam.executionId
      q == IF Has(S.nodeQueueMap, executionId)
           THEN S.nodeQueueMap
           ELSE MapSet(S.nodeQueueMap, executionId, <<>>)
  IN [S EXCEPT !.nodeQueueMap = MapSet(q, executionId, Append(q[executionId], nodeParam)),
               !.enqueued[executionId] = Append(@, nodeParam.nodeId)]

\* Mutant: with nothing queued for the execution, the node is taken from the
\* queue of another execution.
getNextNode_global(S, executionId) ==
  IF Has(S.nodeQueueMap, executionId) /\ Len(S.nodeQueueMap[executionId]) > 0
  THEN [currentNode |-> Head(S.nodeQueueMap[executionId]),
        S |-> [S EXCEPT !.nodeQueueMap =
                 MapSet(@, executionId, Tail(S.nodeQueueMap[executionId]))]]
  ELSE LET others == {x \in DOMAIN S.nodeQueueMap : Len(S.nodeQueueMap[x]) > 0}
       IN IF others = {} THEN [currentNode |-> NullNode, S |-> S]
          ELSE LET x == CHOOSE y \in others : TRUE
               IN [currentNode |-> Head(S.nodeQueueMap[x]),
                   S |-> [S EXCEPT !.nodeQueueMap =
                            MapSet(@, x, Tail(S.nodeQueueMap[x]))]]

\* Mutant: the node is taken from the tail of the queue.
getNextNode_lifo(S, executionId) ==
  IF ~Has(S.nodeQueueMap, executionId) \/ Len(S.nodeQueueMap[executionId]) = 0
  THEN [currentNode |-> NullNode, S |-> S]
  ELSE LET q == S.nodeQueueMap[executionId]
       IN [currentNode |-> q[Len(q)],
           S |-> [S EXCEPT !.nodeQueueMap =
                    MapSet(@, executionId, SubSeq(q, 1, Len(q) - 1))]]

getNextNode(S, executionId) ==
  IF ~Has(S.nodeQueueMap, executionId) \/ Len(S.nodeQueueMap[executionId]) = 0
  THEN [currentNode |-> NullNode, S |-> S]
  ELSE [currentNode |-> Head(S.nodeQueueMap[executionId]),
        S |-> [S EXCEPT !.nodeQueueMap =
                 MapSet(@, executionId, Tail(S.nodeQueueMap[executionId]))]]

pushTaskToRunningMap(S, taskParam) ==
  LET executionId == taskParam.executionId
      m == IF Has(S.taskRunningMap, executionId)
           THEN S.taskRunningMap
           ELSE MapSet(S.taskRunningMap, executionId, EmptyMap)
  IN [S EXCEPT !.taskRunningMap =
        MapSet(m, executionId, MapSet(m[executionId], taskParam.taskId, taskParam))]

removeTaskFromRunningMap(S, taskParam) ==
  IF taskParam.taskId = NoTaskId THEN S
  ELSE IF ~Has(S.taskRunningMap, taskParam.executionId) THEN S
  ELSE [S EXCEPT !.taskRunningMap =
          MapSet(@, taskParam.executionId,
                 MapDelete(S.taskRunningMap[taskParam.executionId], taskParam.taskId))]

\* Mutant: run never finds a running task.
hasRunningTask_never(S, executionId) == [result |-> FALSE, S |-> S]

hasRunningTask(S, executionId) ==
  IF ~Has(S.taskRunningMap, executionId) THEN [result |-> FALSE, S |-> S]
  ELSE IF DOMAIN S.taskRunningMap[executionId] = {}
  THEN [result |-> FALSE,
        S |-> [S EXCEPT !.taskRunningMap = MapDelete(@, executionId)]]
  ELSE [result |-> TRUE, S |-> S]

saveTaskResult(S, data) ==
  RecorderAddTask([S EXCEPT !.clock = @ + 1],
                  [executionId |-> data.executionId,
                   taskId |-> data.taskId,
                   nodeId |-> data.nodeId,
                   nodeType |-> data.nodeType,
                   timestamp |-> S.clock,
                   properties |-> data.properties])

\* The node's execute()/resume() is started: a new invocation, not yet settled.
StartNode(S, taskParam, kind) ==
  [S EXCEPT !.tasks[taskParam.executionId] =
     Append(@, [executionId |-> taskParam.executionId,
                nodeId |-> taskParam.nodeId,
                taskId |-> taskParam.taskId,
                kind |-> kind,
                state |-> "running",
                detail |-> NoDetail])]

\* Scheduler.exec up to its await.
exec(S, taskParam) == StartNode(S, taskParam, "execute")

\* util/ID createTaskId: an identifier no other task has.
createTaskId(S, executionId) == <<executionId, S.nextTaskId[executionId]>>

run(S, runParams) ==
  LET executionId == runParams.executionId
      r == getNextNode(S, executionId)
  IN IF r.currentNode # NullNode
     THEN LET taskId == createTaskId(r.S, executionId)
              taskParam == [executionId |-> r.currentNode.executionId,
                            nodeId |-> r.currentNode.nodeId,
                            taskId |-> taskId]
              S1 == [r.S EXCEPT !.nextTaskId[executionId] = @ + 1]
          IN exec(pushTaskToRunningMap(S1, taskParam), taskParam)
     ELSE LET h == hasRunningTask(r.S, executionId)
          IN IF ~h.result
             THEN emit(h.S, [type |-> EVENT_INSTANCE_COMPLETE,
                             executionId |-> executionId,
                             nodeId |-> runParams.nodeId,
                             taskId |-> runParams.taskId,
                             status |-> COMPLETED])
             ELSE h.S

\* Mutant: the resumed task goes through the ready queue.
resume_via_queue(S, resumeParam) ==
  LET taskParam == [executionId |-> resumeParam.executionId,
                    nodeId |-> resumeParam.nodeId,
                    taskId |-> resumeParam.taskId]
  IN StartNode(addTask(S, [executionId |-> resumeParam.executionId,
                           nodeId |-> resumeParam.nodeId]),
               taskParam, "resume")

\* Scheduler.resume up to its await.
resume(S, resumeParam) ==
  LET taskParam == [executionId |-> resumeParam.executionId,
                    nodeId |-> resumeParam.nodeId,
                    taskId |-> resumeParam.taskId]
  IN StartNode(pushTaskToRunningMap(S, taskParam), taskParam, "resume")

RECURSIVE addOutgoing(_, _, _)
addOutgoing(S, executionId, outgoing) ==
  IF outgoing = <<>> THEN S
  ELSE addOutgoing(addTask(S, [executionId |-> executionId, nodeId |-> Head(outgoing)]),
                   executionId, Tail(outgoing))

RECURSIVE runTimes(_, _, _)
runTimes(S, runParams, n) ==
  IF n = 0 THEN S ELSE runTimes(run(S, runParams), runParams, n - 1)

\* Mutant: the continuation calls run once per outgoing target.
next_run_per_target(S, data) ==
  LET S1 == IF Len(data.outgoing) > 0
            THEN addOutgoing(S, data.executionId, data.outgoing)
            ELSE S
      S2 == saveTaskResult(S1, data)
      S3 == removeTaskFromRunningMap(S2, data)
  IN runTimes(S3, [executionId |-> data.executionId,
                   nodeId |-> data.nodeId,
                   taskId |-> data.taskId],
              IF Len(data.outgoing) > 1 THEN Len(data.outgoing) ELSE 1)

\* Mutant: the continuation does not call run.
next_without_run(S, data) ==
  LET S1 == IF Len(data.outgoing) > 0
            THEN addOutgoing(S, data.executionId, data.outgoing)
            ELSE S
      S2 == saveTaskResult(S1, data)
  IN removeTaskFromRunningMap(S2, data)

next(S, data) ==
  LET S1 == IF Len(data.outgoing) > 0
            THEN addOutgoing(S, data.executionId, data.outgoing)
            ELSE S
      S2 == saveTaskResult(S1, data)
      S3 == removeTaskFromRunningMap(S2, data)
  IN run(S3, [executionId |-> data.executionId,
              nodeId |-> data.nodeId,
              taskId |-> data.taskId])

interrupted(S, execResult, taskParam) ==
  emit(S, [type |-> EVENT_INSTANCE_INTERRUPTED,
           executionId |-> taskParam.executionId,
           status |-> INTERRUPTED,
           nodeId |-> taskParam.nodeId,
           taskId |-> taskParam.taskId,
           detail |-> execResult.detail])

\* Mutant: the interruption handler calls run after removing the entry.
execInterrupted_runs(S, taskParam, execResult, subscriberResumes) ==
  LET S1 == interrupted(S, execResult, taskParam)
      S2 == IF subscriberResumes THEN resume(S1, taskParam) ELSE S1
      S3 == saveTaskResult(S2, [executionId |-> taskParam.executionId,
                                nodeId |-> taskParam.nodeId,
                                taskId |-> taskParam.taskId,
                                nodeType |-> execResult.nodeType,
                                properties |-> execResult.properties,
                                outgoing |-> <<>>,
                                extraInfo |-> [status |-> execResult.status,
                                               detail |-> execResult.detail]])
  IN run(removeTaskFromRunningMap(S3, taskParam),
         [executionId |-> taskParam.executionId,
          nodeId |-> taskParam.nodeId,
          taskId |-> taskParam.taskId])

\* Mutant: the interrupted node's outgoing targets are enqueued.
execInterrupted_enqueues(S, taskParam, execResult, subscriberResumes) ==
  LET S0 == addOutgoing(S, taskParam.executionId, Outgoing(taskParam.nodeId))
      S1 == interrupted(S0, execResult, taskParam)
      S2 == IF subscriberResumes THEN resume(S1, taskParam) ELSE S1
      S3 == saveTaskResult(S2, [executionId |-> taskParam.executionId,
                                nodeId |-> taskParam.nodeId,
                                taskId |-> taskParam.taskId,
                                nodeType |-> execResult.nodeType,
                                properties |-> execResult.properties,
                                outgoing |-> <<>>,
                                extraInfo |-> [status |-> execResult.status,
                                               detail |-> execResult.detail]])
  IN removeTaskFromRunningMap(S3, taskParam)

\* Scheduler.exec after its await, for a result with status INTERRUPTED.
\* subscriberResumes: a subscriber of the interruption event calls resume for
\* the task while the event is being delivered.
execInterrupted(S, taskParam, execResult, subscriberResumes) ==
  LET S1 == interrupted(S, execResult, taskParam)
      S2 == IF subscriberResumes THEN resume(S1, taskParam) ELSE S1
      S3 == saveTaskResult(S2, [executionId |-> taskParam.executionId,
                                nodeId |-> taskParam.nodeId,
                                taskId |-> taskParam.taskId,
                                nodeType |-> execResult.nodeType,
                                properties |-> execResult.properties,
                                outgoing |-> <<>>,
                                extraInfo |-> [status |-> execResult.status,
                                               detail |-> execResult.detail]])
  IN removeTaskFromRunningMap(S3, taskParam)

(***************************************************************************)
(* Initial state and actions.                                              *)
(***************************************************************************)
Init ==
  /\ nodeQueueMap = EmptyMap
  /\ taskRunningMap = EmptyMap
  /\ storage = EmptyMap
  /\ pending = <<>>
  /\ events = [e \in Execs |-> <<>>]
  /\ tasks = [e \in Execs |-> <<>>]
  /\ nextTaskId = [e \in Execs |-> 1]
  /\ clock = 1
  /\ enqueued = [e \in Execs |-> <<>>]
  /\ seeded = [e \in Execs |-> 0]
  /\ runCalls = [e \in Execs |-> 0]
  /\ resumeCalls = 0

RECURSIVE SumOver(_, _)
SumOver(f, D) ==
  IF D = {} THEN 0
  ELSE LET d == CHOOSE x \in D : TRUE IN f[d] + SumOver(f, D \ {d})

\* The caller seeds the queue of an execution with a start node of the flow,
\* each start node once, before it starts the execution.
AddTask(executionId, nodeId) ==
  /\ SumOver(seeded, Execs) < MaxSeed
  /\ runCalls[executionId] = 0
  /\ \A k \in DOMAIN enqueued[executionId] : enqueued[executionId][k] # nodeId
  /\ Becomes(addTask(State, [executionId |-> executionId, nodeId |-> nodeId]))
  /\ seeded' = [seeded EXCEPT ![executionId] = @ + 1]
  /\ UNCHANGED <<runCalls, resumeCalls>>

\* The caller calls run, at most once per node it seeded.
Run(executionId) ==
  /\ runCalls[executionId] < seeded[executionId]
  /\ Becomes(run(State, [executionId |-> executionId,
                         nodeId |-> NoNodeId, taskId |-> NoTaskId]))
  /\ runCalls' = [runCalls EXCEPT ![executionId] = @ + 1]
  /\ UNCHANGED <<seeded, resumeCalls>>

Settle(S, e, i, state, detail) ==
  [S EXCEPT !.tasks[e][i].state = state, !.tasks[e][i].detail = detail]

\* A running node calls the continuation it was given.
NodeNext(e, i) ==
  /\ tasks[e][i].state = "running"
  /\ Len(pending) < MaxPending
  /\ Becomes(next(Settle(State, e, i, "next", NoDetail),
                  [executionId |-> tasks[e][i].executionId,
                   nodeId |-> tasks[e][i].nodeId,
                   taskId |-> tasks[e][i].taskId,
                   nodeType |-> NodeType(tasks[e][i].nodeId),
                   properties |-> <<>>,
                   outgoing |-> Outgoing(tasks[e][i].nodeId)]))
  /\ UNCHANGED <<seeded, runCalls, resumeCalls>>

\* A node's execute() resolves with status INTERRUPTED and exec handles it.
ExecInterrupted(e, i, detail, subscriberResumes) ==
  /\ tasks[e][i].state = "running"
  /\ tasks[e][i].kind = "execute"
  /\ Len(pending) < MaxPending
  /\ subscriberResumes => resumeCalls < MaxResume
  /\ Becomes(execInterrupted(Settle(State, e, i, "interrupted", detail),
                             [executionId |-> tasks[e][i].executionId,
                              nodeId |-> tasks[e][i].nodeId,
                              taskId |-> tasks[e][i].taskId],
                             [status |-> INTERRUPTED,
                              detail |-> detail,
                              nodeType |-> NodeType(tasks[e][i].nodeId),
                              properties |-> <<>>],
                             subscriberResumes))
  /\ resumeCalls' = IF subscriberResumes THEN resumeCalls + 1 ELSE resumeCalls
  /\ UNCHANGED <<seeded, runCalls>>

\* A node's resume() resolves without having called the continuation: the
\* branch is suspended again.  Scheduler.resume does not look at the result.
ResumeInterrupted(e, i) ==
  /\ tasks[e][i].state = "running"
  /\ tasks[e][i].kind = "resume"
  /\ Becomes(Settle(State, e, i, "interrupted", NoDetail))
  /\ UNCHANGED <<seeded, runCalls, resumeCalls>>

\* The invocation i is the last one of its task and ended interrupted.
Dormant(e, i) ==
  /\ tasks[e][i].state = "interrupted"
  /\ \A j \in DOMAIN tasks[e] : j > i => tasks[e][j].taskId # tasks[e][i].taskId

\* The caller resumes an interrupted task.
Resume(e, i) ==
  /\ resumeCalls < MaxResume
  /\ Dormant(e, i)
  /\ Becomes(resume(State, [executionId |-> tasks[e][i].executionId,
                            nodeId |-> tasks[e][i].nodeId,
                            taskId |-> tasks[e][i].taskId]))
  /\ resumeCalls' = resumeCalls + 1
  /\ UNCHANGED <<seeded, runCalls>>

\* The oldest suspended Recorder.addTask call continues after its await.
RecorderWrite ==
  /\ pending # <<>>
  /\ storage' = RecorderAddTaskResume(storage, Head(pending))
  /\ pending' = Tail(pending)
  /\ UNCHANGED <<nodeQueueMap, taskRunningMap, events, tasks, nextTaskId, clock,
                 enqueued, seeded, runCalls, resumeCalls>>

Next ==
  \/ \E e \in Started, n \in StartNodes : AddTask(e, n)
  \/ \E e \in Execs : Run(e)
  \/ \E e \in Execs : \E i \in DOMAIN tasks[e] : NodeNext(e, i)
  \/ \E e \in Execs : \E i \in DOMAIN tasks[e] : \E d \in Details, b \in BOOLEAN :
       ExecInterrupted(e, i, d, b)
  \/ \E e \in Execs : \E i \in DOMAIN tasks[e] : ResumeInterrupted(e, i)
  \/ \E e \in Execs : \E i \in DOMAIN tasks[e] : Resume(e, i)
  \/ RecorderWrite

Spec == Init /\ [][Next]_vars

\* Some running node settles: it calls the continuation or ends interrupted.
SettleAny ==
  \E e \in Execs : \E i \in DOMAIN tasks[e] :
    \/ NodeNext(e, i)
    \/ \E d \in Details, b \in BOOLEAN : ExecInterrupted(e, i, d, b)
    \/ ResumeInterrupted(e, i)

\* ENABLED <<SettleAny>>_vars, as a state predicate: a running execute() can
\* settle when the recorder accepts a call, a running resume() always can.
CanSettle ==
  \E e \in Execs : \E i \in DOMAIN tasks[e] :
    /\ tasks[e][i].state = "running"
    /\ tasks[e][i].kind = "execute" => Len(pending) < MaxPending

\* Every running node eventually settles (weak fairness of SettleAny, written
\* out by its definition) and every suspended Recorder.addTask continues; the
\* caller is not obliged to call run or resume again.
FairSpec ==
  /\ Init /\ [][Next]_vars
  /\ ([]<>(~CanSettle) \/ []<><<SettleAny>>_vars)
  /\ WF_vars(RecorderWrite)

(***************************************************************************)
(* The recorder with its clear operation.                                  *)
(***************************************************************************)
\* The caller clears the recorder.  Without an instance index clear changes
\* nothing, so only the calls that find one are steps.
Clear ==
  /\ Has(storage, LOGICFLOW_ENGINE_INSTANCES)
  /\ storage' = clear(storage)
  /\ UNCHANGED <<nodeQueueMap, taskRunningMap, pending, events, tasks, nextTaskId,
                 clock, enqueued, seeded, runCalls, resumeCalls>>

NextOrClear == Next \/ Clear

RecorderSpec == Init /\ [][NextOrClear]_vars

(***************************************************************************)
(* Vocabulary of the properties.                                           *)
(***************************************************************************)
\* Number of instance-complete events emitted for the execution.
CompleteCount(e) ==
  Cardinality({k \in DOMAIN events[e] : events[e][k].type = EVENT_INSTANCE_COMPLETE})

\* Invocations of the execution that have not settled.
Unsettled(e) == {i \in DOMAIN tasks[e] : tasks[e][i].state = "running"}

\* The nodeIds launched by run for the execution, in launch order.
RECURSIVE LaunchLogOf(_)
LaunchLogOf(ts) ==
  IF ts = <<>> THEN <<>>
  ELSE IF Head(ts).kind = "execute"
       THEN <<Head(ts).nodeId>> \o LaunchLogOf(Tail(ts))
       ELSE LaunchLogOf(Tail(ts))
LaunchLog(e) == LaunchLogOf(tasks[e])

IsPrefix(s, t) == Len(s) <= Len(t) /\ \A k \in 1..Len(s) : s[k] = t[k]

QueueOf(e) == IF Has(nodeQueueMap, e) THEN nodeQueueMap[e] ELSE <<>>
RunningOf(e) == IF Has(taskRunningMap, e) THEN DOMAIN taskRunningMap[e] ELSE {}

(***************************************************************************)
(* C1: for every execution, the instance-complete event is emitted at most *)
(* once (never a second time), whatever the sequence of addTask, run,      *)
(* continuation, interruption and resume steps.                            *)
(***************************************************************************)
CompleteEmittedAtMostOnce == \A e \in Execs : CompleteCount(e) <= 1

(***************************************************************************)
(* C2: a step that emits instance-complete for an execution leaves no      *)
(* launched or resumed task of that execution unsettled.                   *)
(***************************************************************************)
CompleteOnlyWhenAllSettled ==
  [][\A e \in Execs : CompleteCount(e)' > CompleteCount(e) => Unsettled(e)' = {}]_vars

(***************************************************************************)
(* C3: within an execution, nodes are launched in the order addTask        *)
(* enqueued them: the launched nodes are a prefix of the enqueued nodes.   *)
(***************************************************************************)
FifoLaunchOrder == \A e \in Execs : IsPrefix(LaunchLog(e), enqueued[e])

\* Two nodes have been launched from a queue that held three.
FifoLaunchOrderWitness ==
  \E e \in Execs : Len(LaunchLog(e)) >= 2 /\ Len(QueueOf(e)) >= 2

(***************************************************************************)
(* C4: once the caller has called run, every node in the ready queue is    *)
(* eventually launched (the queue drains) with no further call of the      *)
(* caller, provided every running task settles.                            *)
(***************************************************************************)
EveryReadyNodeLaunched ==
  \A e \in Execs :
    (runCalls[e] > 0 /\ QueueOf(e) # <<>>) ~> (QueueOf(e) = <<>>)

\* Some task of the execution ended interrupted.
InterruptedIn(e) == \E i \in DOMAIN tasks[e] : tasks[e][i].state = "interrupted"

\* C4 as amended: the same, as long as no task of the execution ends
\* interrupted (every task settles by calling the continuation).
EveryReadyNodeLaunchedUnlessInterrupted ==
  \A e \in Execs :
    (runCalls[e] > 0 /\ QueueOf(e) # <<>>) ~> (QueueOf(e) = <<>> \/ InterruptedIn(e))

\* After one run call of the caller and no interruption, three nodes have
\* been launched and the queue is empty.
EveryReadyNodeLaunchedWitness ==
  \E e \in Execs :
    /\ runCalls[e] = 1
    /\ ~InterruptedIn(e)
    /\ Len(LaunchLog(e)) >= 3
    /\ QueueOf(e) = <<>>

(***************************************************************************)
(* Steps, recognised by what they do to the invocation log.                *)
(***************************************************************************)
\* Invocation i of execution e calls the continuation in this step.
ContinuationStep(e, i) ==
  tasks[e][i].state = "running" /\ tasks'[e][i].state = "next"

\* The execute() of invocation i ends interrupted in this step.
InterruptionStep(e, i) ==
  /\ tasks[e][i].kind = "execute"
  /\ tasks[e][i].state = "running" /\ tasks'[e][i].state = "interrupted"

\* The caller resumes a task of execution e in this step.
ResumeStep(e) ==
  /\ Len(tasks'[e]) = Len(tasks[e]) + 1
  /\ tasks'[e][Len(tasks'[e])].kind = "resume"
  /\ \A i \in DOMAIN tasks[e] : tasks'[e][i] = tasks[e][i]

\* The queue entries addTask makes for a node's outgoing targets.
RECURSIVE Targets(_, _)
Targets(e, outgoing) ==
  IF outgoing = <<>> THEN <<>>
  ELSE <<[executionId |-> e, nodeId |-> Head(outgoing)]>> \o Targets(e, Tail(outgoing))

\* Some running entry of the execution is for the node.
NodeRunning(e, nodeId) ==
  \E t \in RunningOf(e) : taskRunningMap[e][t].nodeId = nodeId

(***************************************************************************)
(* C5: when a node with two outgoing targets calls the continuation, both  *)
(* targets are launched by that continuation: both are in the running      *)
(* registry right after it, before either settles.                         *)
(***************************************************************************)
FanOutLaunchesAllTargets ==
  [][\A e \in Execs : \A i \in DOMAIN tasks[e] :
       (ContinuationStep(e, i) /\ Len(Outgoing(tasks[e][i].nodeId)) >= 2)
         => \A k \in DOMAIN Outgoing(tasks[e][i].nodeId) :
              NodeRunning(e, Outgoing(tasks[e][i].nodeId)[k])']_vars

\* C5 as amended: the continuation of a node with two outgoing targets
\* enqueues them and launches exactly one node, the head of the ready queue;
\* the rest of the queue, ending with the last target, stays queued.
FanOutLaunchesOnlyHead ==
  [][\A e \in Execs : \A i \in DOMAIN tasks[e] :
       (ContinuationStep(e, i) /\ Len(Outgoing(tasks[e][i].nodeId)) >= 2)
         => LET q == QueueOf(e) \o Targets(e, Outgoing(tasks[e][i].nodeId))
                n == Len(tasks'[e])
            IN /\ n = Len(tasks[e]) + 1
               /\ tasks'[e][n].kind = "execute"
               /\ tasks'[e][n].state = "running"
               /\ tasks'[e][n].nodeId = Head(q).nodeId
               /\ tasks'[e][n].taskId \in RunningOf(e)'
               /\ QueueOf(e)' = Tail(q)]_vars

\* A has called the continuation, B is running and C is still queued.
FanOutLaunchesOnlyHeadWitness ==
  \E e \in Execs : \E i \in DOMAIN tasks[e] :
    /\ tasks[e][i].nodeId = "A" /\ tasks[e][i].state = "next"
    /\ QueueOf(e) = <<[executionId |-> e, nodeId |-> "C"]>>
    /\ NodeRunning(e, "B")
    /\ ~NodeRunning(e, "C")

(***************************************************************************)
(* C6: handling an INTERRUPTED execute result adds nothing to the ready    *)
(* queue; nodes enter the queue only by the caller's seeding or as the     *)
(* outgoing targets of a node that calls the continuation.                 *)
(***************************************************************************)
InterruptedEnqueuesNothing ==
  [][\A e \in Execs :
       /\ \A i \in DOMAIN tasks[e] :
            InterruptionStep(e, i)
              => nodeQueueMap' = nodeQueueMap /\ enqueued' = enqueued
       /\ enqueued'[e] # enqueued[e]
            => \/ seeded'[e] = seeded[e] + 1
               \/ \E i \in DOMAIN tasks[e] :
                    /\ ContinuationStep(e, i)
                    /\ enqueued'[e] = enqueued[e] \o Outgoing(tasks[e][i].nodeId)]_vars

\* The execute() of node A, which has outgoing targets, ended interrupted and
\* the targets are neither queued nor launched.
InterruptedEnqueuesNothingWitness ==
  \E e \in Execs : \E i \in DOMAIN tasks[e] :
    /\ tasks[e][i].nodeId = "A"
    /\ tasks[e][i].kind = "execute"
    /\ tasks[e][i].state = "interrupted"
    /\ enqueued[e] = <<"A">>

(***************************************************************************)
(* Recorder queries.                                                       *)
(***************************************************************************)
ExecutionTasks(e) == IF Has(storage, ExecKey(e)) THEN storage[ExecKey(e)] ELSE <<>>

\* Number of settlements of the task that are persisted: continuation calls
\* and INTERRUPTED execute results.
Settlements(e, taskId) ==
  Cardinality({i \in DOMAIN tasks[e] :
                 /\ tasks[e][i].taskId = taskId
                 /\ \/ tasks[e][i].state = "next"
                    \/ tasks[e][i].state = "interrupted" /\ tasks[e][i].kind = "execute"})

Occurrences(list, x) == Cardinality({k \in DOMAIN list : list[k] = x})

TaskIdsOf(e) == {tasks[e][i].taskId : i \in DOMAIN tasks[e]}

\* Keys of the records stored for the task.
RecordsOfTask(taskId) ==
  {k \in DOMAIN storage : k[1] = "task" /\ storage[k].taskId = taskId}

(***************************************************************************)
(* C7: once no recorder write is pending, the task list of an execution    *)
(* holds exactly one entry per settlement: none lost, none duplicated.     *)
(***************************************************************************)
EverySettlementRecordedOnce ==
  pending = <<>>
    => \A e \in Execs : \A t \in TaskIdsOf(e) :
         Occurrences(ExecutionTasks(e), t) = Settlements(e, t)

(***************************************************************************)
(* C8: the record stored for an interrupted task carries extraInfo with    *)
(* status INTERRUPTED and the detail of the execute result.                *)
(***************************************************************************)
InterruptedRecordHasExtraInfo ==
  \A e \in Execs : \A i \in DOMAIN tasks[e] :
    (/\ tasks[e][i].kind = "execute"
     /\ Dormant(e, i)
     /\ Has(storage, TaskKey(tasks[e][i].taskId)))
      => LET record == storage[TaskKey(tasks[e][i].taskId)]
         IN /\ "extraInfo" \in DOMAIN record
            /\ record.extraInfo = [status |-> INTERRUPTED, detail |-> tasks[e][i].detail]

(***************************************************************************)
(* C9: a branch interrupted and then resumed to completion has two         *)
(* distinct records in the recorder once its writes are done: the          *)
(* interruption record and the completion record.                          *)
(***************************************************************************)
ResumedBranchKeepsTwoRecords ==
  \A e \in Execs : \A i, j \in DOMAIN tasks[e] :
    (/\ pending = <<>>
     /\ i < j
     /\ tasks[e][i].kind = "execute" /\ tasks[e][i].state = "interrupted"
     /\ tasks[e][j].kind = "resume" /\ tasks[e][j].state = "next"
     /\ tasks[e][j].taskId = tasks[e][i].taskId)
      => Cardinality(RecordsOfTask(tasks[e][i].taskId)) = 2

(***************************************************************************)
(* C10: resume inserts a running entry for the task and leaves the ready   *)
(* queue alone; the continuation of a node, resumed or freshly executed,   *)
(* enqueues each outgoing target in order, hands one record to the         *)
(* recorder, removes the running entry and calls run once: run launches    *)
(* the head of the queue or, with nothing queued and nothing running,      *)
(* emits instance-complete.                                                *)
(***************************************************************************)
ContinuationEffects(e, i) ==
  LET t == tasks[e][i].taskId
      outgoing == Outgoing(tasks[e][i].nodeId)
      q == QueueOf(e) \o Targets(e, outgoing)
      n == Len(tasks'[e])
  IN /\ enqueued'[e] = enqueued[e] \o outgoing
     /\ Len(pending') = Len(pending) + 1
     /\ pending'[Len(pending')].task.taskId = t
     /\ t \notin RunningOf(e)'
     /\ IF q # <<>>
        THEN /\ QueueOf(e)' = Tail(q)
             /\ n = Len(tasks[e]) + 1
             /\ tasks'[e][n].nodeId = Head(q).nodeId
             /\ tasks'[e][n].taskId \in RunningOf(e)'
             /\ CompleteCount(e)' = CompleteCount(e)
        ELSE /\ QueueOf(e)' = <<>>
             /\ n = Len(tasks[e])
             /\ CompleteCount(e)' =
                  CompleteCount(e) + (IF RunningOf(e) \ {t} = {} THEN 1 ELSE 0)

ResumedTaskContinuesLikeFresh ==
  [][\A e \in Execs :
       /\ ResumeStep(e)
            => LET r == tasks'[e][Len(tasks'[e])]
               IN /\ nodeQueueMap' = nodeQueueMap
                  /\ r.taskId \in RunningOf(e)'
                  /\ taskRunningMap'[e][r.taskId] =
                       [executionId |-> e, nodeId |-> r.nodeId, taskId |-> r.taskId]
       /\ \A i \in DOMAIN tasks[e] :
            ContinuationStep(e, i) => ContinuationEffects(e, i)]_vars

\* A resumed A has called the continuation: its targets were enqueued and
\* the first of them launched.
ResumedTaskContinuesLikeFreshWitness ==
  \E e \in Execs : \E j \in DOMAIN tasks[e] :
    /\ tasks[e][j].kind = "resume" /\ tasks[e][j].state = "next"
    /\ tasks[e][j].nodeId = "A"
    /\ enqueued[e] = <<"A", "B", "C">>
    /\ NodeRunning(e, "B")


\* Recorder.clear is called and finds an instance index.
ClearStep ==
  Has(storage, LOGICFLOW_ENGINE_INSTANCES) /\ ~Has(storage', LOGICFLOW_ENGINE_INSTANCES)

(***************************************************************************)
(* C11: after Recorder.clear nothing recorded before remains: no task      *)
(* record, no execution list and no instance index is left in the storage. *)
(***************************************************************************)
ClearLeavesNothing ==
  [][ClearStep => \A k \in DOMAIN storage : ~Has(storage', k)]_vars

\* The oldest suspended Recorder.addTask call completes in this step.
WriteStep == pending # <<>> /\ pending' = Tail(pending)

(***************************************************************************)
(* C12: every Recorder.addTask call, overlapping with others or not,       *)
(* appends its taskId to the list its execution has at the time of the     *)
(* write: the list keeps every taskId added before, in the order of the    *)
(* calls.                                                                  *)
(***************************************************************************)
AddTaskAppendsInCallOrder ==
  [][WriteStep
       => LET task == Head(pending).task
          IN /\ Has(storage', ExecKey(task.executionId))
             /\ storage'[ExecKey(task.executionId)] =
                  Append(ExecutionTasks(task.executionId), task.taskId)]_vars

(***************************************************************************)
(* A node fails.                                                           *)
(***************************************************************************)
\* The node's execute() or resume() raises instead of returning a result:
\* the promise of Scheduler.exec or Scheduler.resume is rejected at its await
\* and the rest of the function is not executed.
NodeRaises(e, i) ==
  /\ tasks[e][i].state = "running"
  /\ Becomes(Settle(State, e, i, "raised", NoDetail))
  /\ UNCHANGED <<seeded, runCalls, resumeCalls>>

NextOrRaise == Next \/ \E e \in Execs : \E i \in DOMAIN tasks[e] : NodeRaises(e, i)

FailureSpec == Init /\ [][NextOrRaise]_vars

\* Invocations of the execution that ended by raising.
Raised(e) == {i \in DOMAIN tasks[e] : tasks[e][i].state = "raised"}

(***************************************************************************)
(* C13: when a node's execute or resume raises, the step removes the       *)
(* task's running entry and re-attempts a launch: a queued node is started *)
(* or, with nothing queued and nothing running, the instance completes.    *)
(***************************************************************************)
FailedTaskRemovedAndRelaunched ==
  [][\A e \in Execs : \A i \in DOMAIN tasks[e] :
       (tasks[e][i].state = "running" /\ tasks'[e][i].state = "raised")
         => /\ tasks[e][i].taskId \notin RunningOf(e)'
            /\ \/ Len(tasks'[e]) = Len(tasks[e]) + 1
               \/ CompleteCount(e)' = CompleteCount(e) + 1
               \/ RunningOf(e)' # {}]_vars

\* The caller's run call for the execution is made in this step.
CallerRunStep(e) == runCalls'[e] = runCalls[e] + 1

(***************************************************************************)
(* C14: a step emits instance-complete for an execution only when its run  *)
(* finds the ready queue empty and the running registry empty or absent    *)
(* (the step leaves the queue empty and no registry entry); a run call of  *)
(* the caller that finds a node in the queue launches it and emits no      *)
(* instance-complete.                                                      *)
(***************************************************************************)
CompleteOnlyWhenQueueAndRegistryEmpty ==
  [][\A e \in Execs :
       /\ CompleteCount(e)' > CompleteCount(e)
            => /\ QueueOf(e)' = <<>>
               /\ ~Has(taskRunningMap', e)
               /\ CompleteCount(e)' = CompleteCount(e) + 1
       /\ (CallerRunStep(e) /\ QueueOf(e) # <<>>)
            => /\ CompleteCount(e)' = CompleteCount(e)
               /\ LaunchLog(e)' = Append(LaunchLog(e), Head(QueueOf(e)).nodeId)
               /\ QueueOf(e)' = Tail(QueueOf(e))]_vars

\* The first run after addTask on a fresh instance launched the node without
\* an instance-complete event, and the event came later, from a continuation
\* that found nothing queued and nothing running.
CompleteOnlyWhenQueueAndRegistryEmptyWitness ==
  \E e \in Execs :
    /\ seeded[e] = 1 /\ runCalls[e] = 1
    /\ Len(events[e]) = 1
    /\ events[e][1].type = EVENT_INSTANCE_COMPLETE
    /\ events[e][1].taskId # NoTaskId
    /\ Len(tasks[e]) >= 1
    /\ QueueOf(e) = <<>> /\ RunningOf(e) = {}

\* Number of instance-interrupted events emitted for the task.
InterruptedEvents(e, taskId) ==
  Cardinality({k \in DOMAIN events[e] :
                 /\ events[e][k].type = EVENT_INSTANCE_INTERRUPTED
                 /\ events[e][k].taskId = taskId})

\* Number of invocations of the task that ended interrupted.
Interruptions(e, taskId) ==
  Cardinality({i \in DOMAIN tasks[e] :
                 tasks[e][i].taskId = taskId /\ tasks[e][i].state = "interrupted"})

(***************************************************************************)
(* C15: a resumed task that is suspended again leaves the running registry *)
(* and an instance-interrupted event is emitted for it, as for the         *)
(* interruption of a fresh execution.                                      *)
(***************************************************************************)
ResumedTaskInterruptedLikeFresh ==
  \A e \in Execs : \A i \in DOMAIN tasks[e] :
    (tasks[e][i].kind = "resume" /\ Dormant(e, i))
      => /\ tasks[e][i].taskId \notin RunningOf(e)
         /\ InterruptedEvents(e, tasks[e][i].taskId) = Interruptions(e, tasks[e][i].taskId)

\* The taskIds of the invocations that have not settled.
UnsettledTaskIds(e) == {tasks[e][i].taskId : i \in Unsettled(e)}

(***************************************************************************)
(* C16: in every state the running registry of an execution holds exactly  *)
(* the tasks launched or resumed and not yet settled, each under its own   *)
(* taskId.                                                                 *)
(***************************************************************************)
RegistryIsExactlyUnsettled ==
  \A e \in Execs :
    /\ RunningOf(e) = UnsettledTaskIds(e)
    /\ \A t \in RunningOf(e) : taskRunningMap[e][t].taskId = t

(***************************************************************************)
(* C17: handling an INTERRUPTED execute result emits one                   *)
(* instance-interrupted event with the task's executionId, nodeId, taskId  *)
(* and the result's detail, removes the task's running entry and does not  *)
(* call run: the ready queue is unchanged, no node is launched and no      *)
(* instance-complete is emitted in that step.                              *)
(***************************************************************************)
InterruptionHandlingDoesNotRun ==
  [][\A e \in Execs : \A i \in DOMAIN tasks[e] :
       InterruptionStep(e, i)
         => /\ events'[e] =
                 Append(events[e], [type |-> EVENT_INSTANCE_INTERRUPTED,
                                    executionId |-> e,
                                    status |-> INTERRUPTED,
                                    nodeId |-> tasks[e][i].nodeId,
                                    taskId |-> tasks[e][i].taskId,
                                    detail |-> tasks'[e][i].detail])
            /\ tasks'[e][i].detail \in Details
            /\ tasks[e][i].taskId \notin RunningOf(e)'
            /\ nodeQueueMap' = nodeQueueMap
            /\ LaunchLog(e)' = LaunchLog(e)
            /\ nextTaskId' = nextTaskId]_vars

\* A node ended interrupted while another node was queued and nothing else
\* was running: the queued node was not launched and the instance was not
\* declared complete.
InterruptionHandlingDoesNotRunWitness ==
  \E e \in Execs : \E i \in DOMAIN tasks[e] :
    /\ tasks[e][i].kind = "execute" /\ tasks[e][i].state = "interrupted"
    /\ Unsettled(e) = {} /\ RunningOf(e) = {}
    /\ QueueOf(e) # <<>>
    /\ CompleteCount(e) = 0
    /\ InterruptedEvents(e, tasks[e][i].taskId) = 1

(***************************************************************************)
(* C18: when instance-complete is emitted for an execution, neither the    *)
(* ready-queue map nor the running-registry map holds an entry for it.     *)
(***************************************************************************)
EndedInstanceEvicted ==
  [][\A e \in Execs :
       CompleteCount(e)' > CompleteCount(e)
         => ~Has(nodeQueueMap', e) /\ ~Has(taskRunningMap', e)]_vars

\* The tasks of the execution that are interrupted and not resumed.
DormantTasks(e) == {i \in DOMAIN tasks[e] : Dormant(e, i)}

(***************************************************************************)
(* C19: instance-complete is never emitted for an execution that has an    *)
(* interrupted task not yet resumed.                                       *)
(***************************************************************************)
NoCompleteWhileBranchDormant ==
  [][\A e \in Execs :
       CompleteCount(e)' > CompleteCount(e) => DormantTasks(e)' = {}]_vars

(***************************************************************************)
(* Several execution instances share the scheduler.                        *)
(***************************************************************************)
NextOfAll ==
  \/ \E e \in Execs, n \in StartNodes : AddTask(e, n)
  \/ \E e \in Execs : Run(e)
  \/ \E e \in Execs : \E i \in DOMAIN tasks[e] : NodeNext(e, i)
  \/ \E e \in Execs : \E i \in DOMAIN tasks[e] : \E d \in Details, b \in BOOLEAN :
       ExecInterrupted(e, i, d, b)
  \/ \E e \in Execs : \E i \in DOMAIN tasks[e] : ResumeInterrupted(e, i)
  \/ \E e \in Execs : \E i \in DOMAIN tasks[e] : Resume(e, i)
  \/ RecorderWrite

SharedSpec == Init /\ [][NextOfAll]_vars

\* The step is an operation on execution e: an addTask or run call of the
\* caller, or a continuation, an interruption or a resume of one of its tasks.
ActsOn(e) ==
  \/ seeded'[e] # seeded[e]
  \/ runCalls'[e] # runCalls[e]
  \/ tasks'[e] # tasks[e]

\* The step leaves the queue, the registry and the events of execution e alone.
Untouched(e) ==
  /\ Has(nodeQueueMap', e) <=> Has(nodeQueueMap, e)
  /\ QueueOf(e)' = QueueOf(e)
  /\ Has(taskRunningMap', e) <=> Has(taskRunningMap, e)
  /\ Has(taskRunningMap, e) => taskRunningMap'[e] = taskRunningMap[e]
  /\ events'[e] = events[e]

(***************************************************************************)
(* C20: an operation on one execution (addTask, run, resume, continuation, *)
(* interruption) leaves the ready queue and the running registry of every  *)
(* other execution unchanged and emits no event carrying another           *)
(* executionId.                                                            *)
(***************************************************************************)
InstancesAreIsolated ==
  [][\A e1 \in Execs : ActsOn(e1) => \A e2 \in Execs \ {e1} : Untouched(e2)]_vars

\* One execution has completed while a node of another one is running with a
\* node still queued behind it.
InstancesAreIsolatedWitness ==
  \E e1, e2 \in Execs :
    /\ e1 # e2
    /\ CompleteCount(e1) = 1 /\ Len(tasks[e1]) >= 1
    /\ RunningOf(e2) # {} /\ QueueOf(e2) # <<>>
    /\ CompleteCount(e2) = 0

====
